---- MODULE Spec2Model ----
(***************************************************************************)
(* Model of notifier/rule.py (class Rule) of aker-events-notifier.         *)
(*                                                                         *)
(* A Rule is built for one message (event) and one config; check_rules     *)
(* dispatches on message.event_type to one handler, which builds the       *)
(* recipients, the subject and the data dictionary and hands them to       *)
(* Notify.send_email.  Python dictionaries are objects: a handler creates  *)
(* one, keeps writing to it and passes a reference to the sender.  The     *)
(* model therefore keeps a heap of dictionaries; a request holds the       *)
(* reference it was given and, next to it, the content the dictionary had  *)
(* when send_email was called.                                             *)
(*                                                                         *)
(* An exception that leaves check_rules is recorded in the call's          *)
(* "raised" field ("none" when check_rules returns normally).              *)
(***************************************************************************)
EXTENDS Naturals, Sequences, FiniteSets, TLC

VARIABLES message, config, python, heap, calls

vars == <<message, config, python, heap, calls>>

(***************************************************************************)
(* Bounds of the model.                                                    *)
(***************************************************************************)
MaxCalls == 2
MaxDeputies == 2

(***************************************************************************)
(* notifier/consts.py (imported with "from .consts import *").             *)
(***************************************************************************)
EVENT_MAN_CREATED == "manifest.created"
EVENT_MAN_RECEIVED == "manifest.received"
EVENT_WO_DISPATCHED == "work_order.dispatched"
EVENT_WO_CONCLUDED == "work_order.concluded"
EVENT_CAT_NEW == "catalogue.new"
EVENT_CAT_PROCESSED == "catalogue.processed"
EVENT_CAT_REJECTED == "catalogue.rejected"

SBJ_MAN_CREATED == "Manifest Created"
SBJ_MAN_CREATED_HMDMC == "Manifest Created HMDMC"
SBJ_MAN_RECEIVED == "Manifest Received"
SBJ_PREFIX_WO == "Work Order"
SBJ_CAT_NEW == "Catalogue New"
SBJ_CAT_PROCESSED == "Catalogue Processed"
SBJ_CAT_REJECTED == "Catalogue Rejected"

PATH_RECEPTION == "reception"
PATH_WORK_ORDER_BEGIN == "work_plans"
PATH_WORK_ORDER_END == "build/dispatch"

(***************************************************************************)
(* Python dictionaries and truthiness.                                     *)
(***************************************************************************)
EmptyDict == [k \in {} |-> ""]

\* d[k] = v
DictSet(d, k, v) == [x \in DOMAIN d \cup {k} |-> IF x = k THEN v ELSE d[x]]

\* The value bool() maps to False, for the type of value each key carries:
\* [] for the list-valued keys, False for the flag, '' for the strings.
Falsy(k) ==
    IF k \in {"deputies", "hmdmc"} THEN <<>>
    ELSE IF k = "all_received" THEN FALSE
    ELSE ""

\* "if self._message.metadata.get(k):" - the key is there and its value is truthy
metadata_get(k) ==
    /\ k \in DOMAIN message.metadata
    /\ message.metadata[k] # Falsy(k)

\* heap[ref][k] = v
HeapSet(h, ref, k, v) == [h EXCEPT ![ref] = DictSet(h[ref], k, v)]

(***************************************************************************)
(* Strings: str.split('.')[-1] and str.capitalize().                       *)
(***************************************************************************)
Lower == "abcdefghijklmnopqrstuvwxyz"
Upper == "ABCDEFGHIJKLMNOPQRSTUVWXYZ"

CharAt(s, i) == SubSeq(s, i, i)

upper(c) ==
    IF \E i \in 1..Len(Lower) : CharAt(Lower, i) = c
    THEN CharAt(Upper, CHOOSE i \in 1..Len(Lower) : CharAt(Lower, i) = c)
    ELSE c

lower(c) ==
    IF \E i \in 1..Len(Upper) : CharAt(Upper, i) = c
    THEN CharAt(Lower, CHOOSE i \in 1..Len(Upper) : CharAt(Upper, i) = c)
    ELSE c

RECURSIVE lower_all(_)
lower_all(s) == IF s = "" THEN "" ELSE lower(Head(s)) \o lower_all(Tail(s))

\* s.capitalize(): first character upper-cased, the rest lower-cased
capitalize(s) == IF s = "" THEN "" ELSE upper(Head(s)) \o lower_all(Tail(s))

\* s.split('.')[-1]: what follows the last '.', the whole string without one
split_last(s) ==
    LET dots == {i \in 1..Len(s) : CharAt(s, i) = "."}
        last == IF dots = {} THEN 0 ELSE CHOOSE i \in dots : \A j \in dots : j <= i
    IN  SubSeq(s, last + 1, Len(s))

(***************************************************************************)
(* Links.                                                                  *)
(***************************************************************************)
\* '{}://{}:{}/{}/{}'.format(protocol, root, port, path, id)
_generate_manifest_link(path, id) ==
    config.link.protocol \o "://" \o config.link.root \o ":"
        \o ToString(config.link.port) \o "/" \o path \o "/" \o id

\* '{}://{}:{}/{}/{}/{}'.format(protocol, root, port, BEGIN, work_plan_id, END)
_generate_wo_link(work_plan_id) ==
    config.link.protocol \o "://" \o config.link.root \o ":"
        \o ToString(config.link.port) \o "/" \o PATH_WORK_ORDER_BEGIN \o "/"
        \o work_plan_id \o "/" \o PATH_WORK_ORDER_END

(***************************************************************************)
(* Notify.send_email(subject, from_address, to, template, data): the       *)
(* sender receives the five arguments; data is a reference into the heap,  *)
(* and "seen" is what that dictionary holds at the time of the call.       *)
(***************************************************************************)
send_email(subject, from_address, to, template, data, h) ==
    [subject |-> subject, from_address |-> from_address, to |-> to,
     template |-> template, data |-> data, seen |-> h[data]]

\* What one run of a handler leaves behind.
Result(h, sent, logged, raised) ==
    [heap |-> h, sent |-> sent, logged |-> logged, raised |-> raised]

(***************************************************************************)
(* The shared extractors.                                                  *)
(***************************************************************************)
\* "for dep in deputies: to.append(dep)"
RECURSIVE append_each(_, _)
append_each(to, deps) ==
    IF deps = <<>> THEN to
    ELSE append_each(Append(to, Head(deps)), Tail(deps))

\* A plausible slip: one dictionary kept on the class and reused by every call
new_dict_shared(h) ==
    IF h = <<>> THEN [heap |-> Append(h, EmptyDict), ref |-> 1]
    ELSE [heap |-> h, ref |-> 1]

\* "data = {}": a new dictionary object; its reference is its place in the heap
new_dict(h) == [heap |-> Append(h, EmptyDict), ref |-> Len(h) + 1]

\* A plausible slip: the custodian appended after the deputies
manifest_recipients_custodian_last ==
    LET to0 == <<message.user_identifier>>
        to1 == IF metadata_get("deputies")
               THEN append_each(to0, message.metadata["deputies"])
               ELSE to0
    IN  IF metadata_get("sample_custodian")
        THEN Append(to1, message.metadata["sample_custodian"])
        ELSE to1

\* The "to" list of Rule._common_manifest (lines 139, 146-150)
manifest_recipients ==
    LET to0 == <<message.user_identifier>>
        to1 == IF metadata_get("sample_custodian")
               THEN Append(to0, message.metadata["sample_custodian"])
               ELSE to0
    IN  IF metadata_get("deputies")
        THEN append_each(to1, message.metadata["deputies"])
        ELSE to1

\* Rule._common_manifest: (to, data) for the manifest events
_common_manifest(h) ==
    LET d  == new_dict(h)
        h1 == IF metadata_get("manifest_id")
              THEN HeapSet(HeapSet(d.heap, d.ref, "manifest_id",
                                   message.metadata["manifest_id"]),
                           d.ref, "link",
                           _generate_manifest_link(PATH_RECEPTION,
                                                   message.metadata["manifest_id"]))
              ELSE d.heap
    IN  [to |-> manifest_recipients, data |-> d.ref, heap |-> h1]

\* Rule._common_work_order: (to, data) for the work order events, or the
\* exception it ends with: ValueError without a work_order_id, KeyError when
\* notifier_info has no work_plan_id for the link.
_common_work_order(h) ==
    LET d  == new_dict(h)
        to == <<message.user_identifier>>
    IN  IF metadata_get("work_order_id")
        THEN LET h1 == HeapSet(d.heap, d.ref, "work_order_id",
                               message.metadata["work_order_id"])
             IN  IF "work_plan_id" \in DOMAIN message.notifier_info
                 THEN [to |-> to, data |-> d.ref, raised |-> "none",
                       heap |-> HeapSet(h1, d.ref, "link",
                           _generate_wo_link(message.notifier_info["work_plan_id"]))]
                 ELSE [to |-> to, data |-> d.ref, raised |-> "KeyError", heap |-> h1]
        ELSE [to |-> to, data |-> d.ref, raised |-> "ValueError", heap |-> d.heap]

\* A plausible slip: the recipients left empty
_common_catalogue_empty == <<>>

\* Rule._common_catalogue: the dev team's address
_common_catalogue == <<config.contact.email_dev_team>>

(***************************************************************************)
(* The handlers.                                                           *)
(***************************************************************************)
\* Recipients of the second manifest-created email (line 57)
hmdmc_recipients == <<config.contact.email_hmdmc_verify>>

\* Rule._on_manifest_create
_on_manifest_create(h) ==
    LET cm == _common_manifest(h)
        h1 == HeapSet(cm.heap, cm.data, "user_identifier", message.user_identifier)
    IN  IF "manifest_id" \notin DOMAIN message.metadata
        THEN \* self._message.metadata['manifest_id'] (line 41)
             Result(h1, <<>>, <<>>, "KeyError")
        ELSE LET first == send_email(
                     SBJ_MAN_CREATED \o " " \o message.metadata["manifest_id"],
                     config.email.from_address, cm.to, "manifest_created",
                     cm.data, h1)
             IN  IF metadata_get("hmdmc")
                 THEN LET h2 == HeapSet(h1, cm.data, "hmdmc_list",
                                        message.metadata["hmdmc"])
                          second == send_email(
                              SBJ_MAN_CREATED_HMDMC \o " "
                                  \o message.metadata["manifest_id"],
                              config.email.from_address, hmdmc_recipients,
                              "manifest_created_hmdmc", cm.data, h2)
                      IN  Result(h2, <<first, second>>, <<>>, "none")
                 ELSE Result(h1, <<first>>, <<>>, "none")

\* "if metadata.get(k): data[k] = metadata[k]"
copy_if_set(h, ref, k) ==
    IF metadata_get(k) THEN HeapSet(h, ref, k, message.metadata[k]) ELSE h

\* Rule._on_manifest_received
_on_manifest_received(h) ==
    LET cm == _common_manifest(h)
        h1 == copy_if_set(copy_if_set(copy_if_set(cm.heap, cm.data, "barcode"),
                                      cm.data, "created_at"),
                          cm.data, "all_received")
    IN  IF "manifest_id" \notin DOMAIN message.metadata
        THEN \* self._message.metadata['manifest_id'] (line 72)
             Result(h1, <<>>, <<>>, "KeyError")
        ELSE Result(h1,
                    <<send_email(
                        SBJ_MAN_RECEIVED \o " " \o message.metadata["manifest_id"],
                        config.email.from_address, cm.to, "manifest_received",
                        cm.data, h1)>>,
                    <<>>, "none")

\* "except ValueError as error: logger.error(error.message)" and the line after
\* it.  Python 3 exceptions have no attribute "message": reading it raises
\* AttributeError before anything is logged.  Python 2 logs the message and
\* goes on to "data[...] = ...", where data was never bound.
on_value_error(h) ==
    IF python = 3
    THEN Result(h, <<>>, <<>>, "AttributeError")
    ELSE Result(h, <<>>, <<"Work Order ID not found in metadata dictionary">>,
                "UnboundLocalError")

\* Rule._on_work_order_event
_on_work_order_event(h) ==
    LET cw == _common_work_order(h)
    IN  IF cw.raised = "ValueError" THEN on_value_error(cw.heap)
        ELSE IF cw.raised # "none" THEN Result(cw.heap, <<>>, <<>>, cw.raised)
        ELSE LET status == split_last(message.event_type)
                 h1 == HeapSet(HeapSet(cw.heap, cw.data, "user_identifier",
                                       message.user_identifier),
                               cw.data, "work_order_status", status)
             IN  IF "drs_study_code" \notin DOMAIN message.notifier_info
                 THEN \* self._message.notifier_info['drs_study_code'] (line 94)
                      Result(h1, <<>>, <<>>, "KeyError")
                 ELSE Result(h1,
                        <<send_email(
                            SBJ_PREFIX_WO \o " " \o message.metadata["work_order_id"]
                                \o " " \o capitalize(status) \o " [Data release:"
                                \o message.notifier_info["drs_study_code"] \o "]",
                            config.email.from_address, cw.to, "wo_event",
                            cw.data, h1)>>,
                        <<>>, "none")

\* Rule._on_catalogue_new
_on_catalogue_new(h) ==
    LET d == new_dict(h)
    IN  Result(d.heap,
               <<send_email(SBJ_CAT_NEW, config.email.from_address,
                            _common_catalogue, "catalogue_new", d.ref, d.heap)>>,
               <<>>, "none")

\* Rule._on_catalogue_processed
_on_catalogue_processed(h) ==
    LET d == new_dict(h)
    IN  Result(d.heap,
               <<send_email(SBJ_CAT_PROCESSED, config.email.from_address,
                            _common_catalogue, "catalogue_processed", d.ref, d.heap)>>,
               <<>>, "none")

\* A plausible slip: the timestamp written outside the "if"
rejected_data_timestamp_always(h, ref) ==
    IF metadata_get("error")
    THEN HeapSet(HeapSet(h, ref, "error", message.metadata["error"]),
                 ref, "timestamp", message.timestamp)
    ELSE HeapSet(h, ref, "timestamp", message.timestamp)

\* The data of catalogue-rejected (lines 126-129)
rejected_data(h, ref) ==
    IF metadata_get("error")
    THEN HeapSet(HeapSet(h, ref, "error", message.metadata["error"]),
                 ref, "timestamp", message.timestamp)
    ELSE h

\* Recipients of catalogue-rejected (line 132)
dev_team_recipients == <<config.contact.email_dev_team>>

\* Rule._on_catalogue_rejected
_on_catalogue_rejected(h) ==
    LET d  == new_dict(h)
        h1 == rejected_data(d.heap, d.ref)
    IN  Result(h1,
               <<send_email(SBJ_CAT_REJECTED, config.email.from_address,
                            dev_team_recipients,
                            "catalogue_rejected", d.ref, h1)>>,
               <<>>, "none")

\* A plausible slip: the last "elif" written as the "else" of the chain
dispatch_rejected_as_default(h) ==
    IF message.event_type = EVENT_MAN_CREATED THEN _on_manifest_create(h)
    ELSE IF message.event_type = EVENT_MAN_RECEIVED THEN _on_manifest_received(h)
    ELSE IF message.event_type \in {EVENT_WO_DISPATCHED, EVENT_WO_CONCLUDED}
         THEN _on_work_order_event(h)
    ELSE IF message.event_type = EVENT_CAT_NEW THEN _on_catalogue_new(h)
    ELSE IF message.event_type = EVENT_CAT_PROCESSED THEN _on_catalogue_processed(h)
    ELSE _on_catalogue_rejected(h)

\* The if/elif chain of Rule.check_rules
dispatch(h) ==
    IF message.event_type = EVENT_MAN_CREATED THEN _on_manifest_create(h)
    ELSE IF message.event_type = EVENT_MAN_RECEIVED THEN _on_manifest_received(h)
    ELSE IF message.event_type \in {EVENT_WO_DISPATCHED, EVENT_WO_CONCLUDED}
         THEN _on_work_order_event(h)
    ELSE IF message.event_type = EVENT_CAT_NEW THEN _on_catalogue_new(h)
    ELSE IF message.event_type = EVENT_CAT_PROCESSED THEN _on_catalogue_processed(h)
    ELSE IF message.event_type = EVENT_CAT_REJECTED THEN _on_catalogue_rejected(h)
    ELSE Result(h, <<>>, <<>>, "none")

(***************************************************************************)
(* The inputs: the messages and the config a Rule is built with.           *)
(***************************************************************************)
KnownEvents ==
    {EVENT_MAN_CREATED, EVENT_MAN_RECEIVED, EVENT_WO_DISPATCHED, EVENT_WO_CONCLUDED,
     EVENT_CAT_NEW, EVENT_CAT_PROCESSED, EVENT_CAT_REJECTED}

EventTypes == KnownEvents \cup {"manifest.deleted"}

\* Key k left out, or set to one of vals
Opt(k, vals) == {EmptyDict} \cup {k :> v : v \in vals}

DeputyName(i) == "deputy" \o ToString(i) \o "@sanger.ac.uk"

\* Deputy lists of up to MaxDeputies addresses, in ascending and descending order
DeputyLists ==
    UNION {{[i \in 1..n |-> DeputyName(i)], [i \in 1..n |-> DeputyName(n + 1 - i)]}
           : n \in 0..MaxDeputies}

ManifestMetadata ==
    {a @@ b @@ c @@ d @@ e @@ f @@ g :
        a \in Opt("manifest_id", {"", "M123"}),
        b \in Opt("sample_custodian", {"", "custodian@sanger.ac.uk"}),
        c \in Opt("deputies", DeputyLists),
        d \in Opt("hmdmc", {<<>>, <<"17/001", "17/002">>}),
        e \in Opt("barcode", {"AKER-7"}),
        f \in Opt("created_at", {"2018-03-01"}),
        g \in Opt("all_received", {FALSE, TRUE})}

OtherMetadata ==
    {a @@ b @@ c :
        a \in Opt("work_order_id", {"", "42"}),
        b \in Opt("error", {"", "bad catalogue"}),
        c \in Opt("manifest_id", {"M123"})}

NotifierInfos ==
    {a @@ b : a \in Opt("work_plan_id", {"9"}), b \in Opt("drs_study_code", {"1234"})}

Messages ==
    [event_type : EventTypes,
     user_identifier : {"user@sanger.ac.uk"},
     metadata : ManifestMetadata \cup OtherMetadata,
     notifier_info : NotifierInfos,
     timestamp : {"2018-03-01T10:00:00"}]

Configs ==
    {[email |-> [from_address |-> "aker@sanger.ac.uk"],
      contact |-> [email_dev_team |-> "dev@sanger.ac.uk",
                   email_hmdmc_verify |-> "hmdmc@sanger.ac.uk"],
      link |-> [protocol |-> "http", root |-> "localhost", port |-> 3000]]}

\* The interpreters the package can run under
PythonVersions == {2, 3}

(***************************************************************************)
(* The state machine.                                                      *)
(***************************************************************************)
\* Rule.__init__: the message and the config are stored; nothing was sent yet
Init ==
    /\ message \in Messages
    /\ config \in Configs
    /\ python \in PythonVersions
    /\ heap = <<>>
    /\ calls = <<>>

\* Rule.check_rules: one whole call, the handler it dispatches to included
check_rules ==
    /\ Len(calls) < MaxCalls
    /\ LET r == dispatch(heap)
       IN  /\ heap' = r.heap
           /\ calls' = Append(calls, [sent |-> r.sent, logged |-> r.logged,
                                      raised |-> r.raised])
    /\ UNCHANGED <<message, config, python>>

Next == check_rules

Spec == Init /\ [][Next]_vars

(***************************************************************************)
(* Vocabulary of the properties.                                           *)
(***************************************************************************)
IsWorkOrderEvent == message.event_type \in {EVENT_WO_DISPATCHED, EVENT_WO_CONCLUDED}
IsManifestEvent == message.event_type \in {EVENT_MAN_CREATED, EVENT_MAN_RECEIVED}

\* The templates of the requests of one call, in order
Templates(c) == [i \in 1..Len(c.sent) |-> c.sent[i].template]

\* A request as the sender received it, the data by value
AsReceived(r) ==
    [subject |-> r.subject, from_address |-> r.from_address, to |-> r.to,
     template |-> r.template, data |-> r.seen]

\* What the caller and the sender observe of one call
Output(c) ==
    [requests |-> [i \in 1..Len(c.sent) |-> AsReceived(c.sent[i])],
     logged |-> c.logged, raised |-> c.raised]

(***************************************************************************)
(* C1.  A work-order event whose metadata has no work_order_id produces no *)
(* request, makes one error-log call, and raises nothing to the caller of  *)
(* check_rules.  The code does not do this: the except clause reads        *)
(* error.message (AttributeError on Python 3) and the handler then uses    *)
(* the unbound "data" (UnboundLocalError on Python 2).                     *)
(***************************************************************************)
C1_MissingWorkOrderIdIsSwallowed ==
    \A i \in DOMAIN calls :
        (IsWorkOrderEvent /\ ~metadata_get("work_order_id"))
            => /\ calls[i].sent = <<>>
               /\ Len(calls[i].logged) = 1
               /\ calls[i].raised = "none"

(***************************************************************************)
(* C2.  manifest.created produces exactly the requests manifest_created,   *)
(* manifest_created_hmdmc when metadata.hmdmc is set, and exactly          *)
(* manifest_created when it is not.  The code does not do this when        *)
(* metadata has no manifest_id key (see C3): it raises before sending.     *)
(***************************************************************************)
C2_ManifestCreatedRequestCount ==
    \A i \in DOMAIN calls :
        message.event_type = EVENT_MAN_CREATED
            => Templates(calls[i]) =
                   IF metadata_get("hmdmc")
                   THEN <<"manifest_created", "manifest_created_hmdmc">>
                   ELSE <<"manifest_created">>

(***************************************************************************)
(* C3.  Without a manifest_id in metadata the manifest handlers do not     *)
(* crash: they produce their request, whose data has neither manifest_id   *)
(* nor link.  The code does not do this: the subject line indexes          *)
(* metadata['manifest_id'] and raises KeyError when the key is missing.    *)
(***************************************************************************)
C3_NoManifestIdNoCrash ==
    \A i \in DOMAIN calls :
        (IsManifestEvent /\ ~metadata_get("manifest_id"))
            => /\ calls[i].raised = "none"
               /\ calls[i].sent # <<>>
               /\ \A j \in DOMAIN calls[i].sent :
                      /\ "manifest_id" \notin DOMAIN calls[i].sent[j].seen
                      /\ "link" \notin DOMAIN calls[i].sent[j].seen

(***************************************************************************)
(* C4.  For an event whose type is none of the seven known tags,           *)
(* check_rules sends nothing, logs nothing and raises nothing, whatever    *)
(* the metadata and notifier_info hold.                                    *)
(***************************************************************************)
C4_UnknownEventIsNoOp ==
    \A i \in DOMAIN calls :
        message.event_type \notin
            {"manifest.created", "manifest.received", "work_order.dispatched",
             "work_order.concluded", "catalogue.new", "catalogue.processed",
             "catalogue.rejected"}
            => /\ calls[i].sent = <<>>
               /\ calls[i].logged = <<>>
               /\ calls[i].raised = "none"

C4_Witness ==
    /\ message.event_type = "manifest.deleted"
    /\ metadata_get("manifest_id")
    /\ metadata_get("hmdmc")
    /\ Len(calls) = MaxCalls

(***************************************************************************)
(* C5.  In a manifest_created or manifest_received request, "to" is the    *)
(* user_identifier, then the sample_custodian if metadata has one, then    *)
(* the deputies in the order metadata lists them, and nothing else.        *)
(* ("has one": the key is set to a non-empty value, as metadata.get tests) *)
(***************************************************************************)
C5_ManifestRecipients ==
    \A i \in DOMAIN calls : \A j \in DOMAIN calls[i].sent :
        calls[i].sent[j].template \in {"manifest_created", "manifest_received"}
            => calls[i].sent[j].to =
                   <<message.user_identifier>>
                   \o (IF metadata_get("sample_custodian")
                       THEN <<message.metadata["sample_custodian"]>> ELSE <<>>)
                   \o (IF metadata_get("deputies")
                       THEN message.metadata["deputies"] ELSE <<>>)

C5_Witness ==
    /\ metadata_get("sample_custodian")
    /\ metadata_get("deputies")
    /\ Len(message.metadata["deputies"]) >= 2
    /\ \E i \in DOMAIN calls : \E j \in DOMAIN calls[i].sent :
           /\ calls[i].sent[j].template = "manifest_received"
           /\ Len(calls[i].sent[j].to) >= 4

(***************************************************************************)
(* C6.  catalogue.rejected produces exactly one request.  Its data is      *)
(* {error: metadata.error, timestamp: event.timestamp} when metadata.error *)
(* is set (to a non-empty value, as metadata.get tests) and the empty      *)
(* mapping otherwise; it never holds one of the two keys without the other.*)
(***************************************************************************)
C6_RejectedData ==
    \A i \in DOMAIN calls :
        message.event_type = EVENT_CAT_REJECTED
            => /\ Len(calls[i].sent) = 1
               /\ calls[i].sent[1].template = "catalogue_rejected"
               /\ LET data == calls[i].sent[1].seen
                  IN  /\ data = IF metadata_get("error")
                                THEN [error |-> message.metadata["error"],
                                      timestamp |-> message.timestamp]
                                ELSE EmptyDict
                      /\ ("error" \in DOMAIN data) <=> ("timestamp" \in DOMAIN data)
                      /\ data = heap[calls[i].sent[1].data]

C6_Witness ==
    /\ message.event_type = EVENT_CAT_REJECTED
    /\ metadata_get("error")
    /\ \E i \in DOMAIN calls :
           /\ Len(calls[i].sent) = 1
           /\ DOMAIN calls[i].sent[1].seen = {"error", "timestamp"}

(***************************************************************************)
(* C7.  Every request handed to the sender has a non-empty "to" list.      *)
(***************************************************************************)
C7_RecipientsNonEmpty ==
    \A i \in DOMAIN calls : \A j \in DOMAIN calls[i].sent :
        Len(calls[i].sent[j].to) >= 1

C7_Witness ==
    /\ message.event_type = EVENT_CAT_NEW
    /\ \E i \in DOMAIN calls :
           /\ Len(calls[i].sent) = 1
           /\ calls[i].sent[1].template = "catalogue_new"
           /\ calls[i].sent[1].to = <<config.contact.email_dev_team>>

(***************************************************************************)
(* C8.  A work-order event that has a work_order_id but whose              *)
(* notifier_info lacks work_plan_id or drs_study_code produces no request, *)
(* makes one error-log call and raises nothing to the caller.  The code    *)
(* does not do this: the missing key raises KeyError, which the handler    *)
(* does not catch and does not log.                                        *)
(***************************************************************************)
C8_MissingNotifierInfoIsSwallowed ==
    \A i \in DOMAIN calls :
        (/\ IsWorkOrderEvent
         /\ metadata_get("work_order_id")
         /\ \/ "work_plan_id" \notin DOMAIN message.notifier_info
            \/ "drs_study_code" \notin DOMAIN message.notifier_info)
            => /\ calls[i].sent = <<>>
               /\ Len(calls[i].logged) = 1
               /\ calls[i].raised = "none"

(***************************************************************************)
(* C9.  Two calls of check_rules on the same Rule (same event, same        *)
(* config) give the same output: the same requests (subject, from_address, *)
(* to, template, data) in the same order, the same log calls and the same  *)
(* outcome.  Nothing of the first call shows in the second.                *)
(***************************************************************************)
C9_SecondCallSameOutput ==
    \A i, j \in DOMAIN calls : Output(calls[i]) = Output(calls[j])

C9_Witness ==
    /\ Len(calls) >= 2
    /\ message.event_type = EVENT_MAN_CREATED
    /\ Templates(calls[1]) = <<"manifest_created", "manifest_created_hmdmc">>
    /\ Templates(calls[2]) = <<"manifest_created", "manifest_created_hmdmc">>
    /\ calls[1].sent[1].data # calls[2].sent[1].data

(***************************************************************************)
(* C10.  In manifest-created with hmdmc set, the data handed over with the *)
(* first request has no hmdmc_list and stays as it was handed over: the    *)
(* two requests do not share one dictionary.  The code does not do this:   *)
(* both requests carry the same dictionary, and hmdmc_list is written into *)
(* it after the first send_email.                                          *)
(***************************************************************************)
C10_FirstPayloadStaysUnchanged ==
    \A i \in DOMAIN calls :
        (/\ message.event_type = EVENT_MAN_CREATED
         /\ metadata_get("hmdmc")
         /\ Len(calls[i].sent) = 2)
            => /\ "hmdmc_list" \notin DOMAIN calls[i].sent[1].seen
               /\ heap[calls[i].sent[1].data] = calls[i].sent[1].seen
               /\ calls[i].sent[1].data # calls[i].sent[2].data

====
